---- MODULE Spec2Model ----
(***************************************************************************)
(* A model of update-python-libraries.py: the version resolver             *)
(* (_determine_latest_version), the regex text patcher (_get_values,       *)
(* _get_line_and_value, _replace_value), the per-package orchestrator      *)
(* (_update_package, _update) and the thread pool of main.                 *)
(*                                                                         *)
(* Texts, versions and attribute values are strings; the Python string and *)
(* regex primitives the program uses (str.replace, str.count, re.findall   *)
(* of the assignment pattern, ...) are operators over them that compute    *)
(* what the Python primitive computes, character by character.             *)
(***************************************************************************)
EXTENDS Integers, Sequences, FiniteSets, TLC

(***************************************************************************)
(* Bounds of the model.                                                    *)
(***************************************************************************)
MaxVersions == 4      \* candidate strings handed to one resolver call
MaxPieces == 2        \* pieces a text handed to the patcher is made of
MaxPackages == 2      \* paths given to one batch run
MaxWorkers == 2       \* threads of the pool (min(32, cpu + 4) in CPython)

(***************************************************************************)
(* Sets and sequences.                                                     *)
(***************************************************************************)
Range(q) == {q[i] : i \in 1..Len(q)}

\* the sequences without repetition of at most n elements of S
RECURSIVE SeqsUpTo(_, _)
SeqsUpTo(S, n) ==
    IF n = 0 THEN {<<>>}
    ELSE SeqsUpTo(S, n - 1)
         \cup UNION {{Append(q, x) : x \in S \ Range(q)} :
                       q \in {p \in SeqsUpTo(S, n - 1) : Len(p) = n - 1}}

\* the non-empty sequences of at most n elements of S
RECURSIVE SeqsWithRepetition(_, _)
SeqsWithRepetition(S, n) ==
    IF n = 0 THEN {}
    ELSE SeqsWithRepetition(S, n - 1) \cup [1..n -> S]

MaxOf(a, b) == IF a >= b THEN a ELSE b
MinOf(a, b) == IF a <= b THEN a ELSE b

\* the least and the greatest element of a set of numbers, 0 for the empty set
MinOrZero(S) == IF S = {} THEN 0 ELSE CHOOSE k \in S : \A h \in S : k <= h
MaxOrZero(S) == IF S = {} THEN 0 ELSE CHOOSE k \in S : \A h \in S : h <= k

(***************************************************************************)
(* Python str primitives.                                                  *)
(***************************************************************************)
At(s, i) == IF i >= 1 /\ i <= Len(s) THEN SubSeq(s, i, i) ELSE ""

\* s.startswith(pat, i - 1)
StartsWithAt(s, i, pat) ==
    /\ i >= 1
    /\ i + Len(pat) - 1 <= Len(s)
    /\ SubSeq(s, i, i + Len(pat) - 1) = pat

\* s.endswith(pat)
EndsWith(s, pat) ==
    /\ Len(pat) <= Len(s)
    /\ SubSeq(s, Len(s) - Len(pat) + 1, Len(s)) = pat

\* pat in s
Contains(s, pat) == \E i \in 1..(Len(s) + 1) : StartsWithAt(s, i, pat)

\* the first occurrence of pat at or after i, or 0
IndexFrom(s, pat, i) ==
    MinOrZero({k \in i..(Len(s) - Len(pat) + 1) : StartsWithAt(s, k, pat)})

RECURSIVE CountFrom(_, _, _)
CountAfter(s, pat, k) ==
    IF k = 0 THEN 0 ELSE 1 + CountFrom(s, pat, k + Len(pat))

CountFrom(s, pat, i) == CountAfter(s, pat, IndexFrom(s, pat, i))

\* s.count(pat): the non-overlapping occurrences of a non-empty pat
StrCount(s, pat) == CountFrom(s, pat, 1)

RECURSIVE ReplaceFrom(_, _, _, _)
ReplaceAt(s, old, new, i, k) ==
    IF k = 0 THEN SubSeq(s, i, Len(s))
    ELSE SubSeq(s, i, k - 1) \o new \o ReplaceFrom(s, old, new, k + Len(old))

ReplaceFrom(s, old, new, i) == ReplaceAt(s, old, new, i, IndexFrom(s, old, i))

RECURSIVE Interleave(_, _, _)
Interleave(s, new, i) ==
    IF i > Len(s) THEN new
    ELSE new \o At(s, i) \o Interleave(s, new, i + 1)

\* s.replace(old, new): every non-overlapping occurrence, left to right; an
\* empty old matches before every character and at the end.
StrReplace(s, old, new) ==
    IF old = "" THEN Interleave(s, new, 1) ELSE ReplaceFrom(s, old, new, 1)

(***************************************************************************)
(* packaging.version.Version, as subclassed by class Version: the release  *)
(* tuple, the prerelease marker and the raw string.  The grammar modelled  *)
(* is  N(.N)*  followed by an optional  rcN ; every other string is an     *)
(* InvalidVersion.                                                         *)
(***************************************************************************)
Digits == {"0", "1", "2", "3", "4", "5", "6", "7", "8", "9"}

DigitVal(c) == CHOOSE d \in 0..9 : At("0123456789", d + 1) = c

InvalidVersion == [ok |-> FALSE, release |-> <<>>, pre |-> -1, raw_version |-> ""]

RECURSIVE AllDigits(_, _)
AllDigits(s, i) ==
    IF i > Len(s) THEN TRUE
    ELSE At(s, i) \in Digits /\ AllDigits(s, i + 1)

RECURSIVE NumVal(_, _, _)
NumVal(s, i, acc) ==
    IF i > Len(s) THEN acc
    ELSE NumVal(s, i + 1, acc * 10 + DigitVal(At(s, i)))

\* cur is the value of the component being read, -1 before its first digit
RECURSIVE ParseFrom(_, _, _, _)
ParseFrom(s, i, rel, cur) ==
    IF i > Len(s)
    THEN IF cur = -1 THEN InvalidVersion
         ELSE [ok |-> TRUE, release |-> Append(rel, cur), pre |-> -1,
               raw_version |-> s]
    ELSE IF At(s, i) \in Digits
    THEN ParseFrom(s, i + 1, rel,
                   (IF cur = -1 THEN 0 ELSE cur * 10) + DigitVal(At(s, i)))
    ELSE IF At(s, i) = "." /\ cur # -1
    THEN ParseFrom(s, i + 1, Append(rel, cur), -1)
    ELSE IF StartsWithAt(s, i, "rc") /\ cur # -1
            /\ AllDigits(s, i + 2)
    THEN [ok |-> TRUE, release |-> Append(rel, cur),
          pre |-> NumVal(s, i + 2, 0), raw_version |-> s]
    ELSE InvalidVersion

Version(version) == ParseFrom(version, 1, <<>>, -1)

is_prerelease(v) == v.pre # -1

\* the i-th release component, 0 beyond the end (packaging pads with zeros)
Comp(rel, i) == IF i <= Len(rel) THEN rel[i] ELSE 0

RECURSIVE CmpRelease(_, _, _)
CmpRelease(a, b, i) ==
    IF i > MaxOf(Len(a), Len(b)) THEN 0
    ELSE IF Comp(a, i) < Comp(b, i) THEN -1
    ELSE IF Comp(a, i) > Comp(b, i) THEN 1
    ELSE CmpRelease(a, b, i + 1)

\* the order of the prerelease markers of two versions of equal release
CmpPre(c, a, b) ==
    IF c # 0 THEN c
    ELSE IF a.pre = b.pre THEN 0
    ELSE IF a.pre = -1 THEN 1
    ELSE IF b.pre = -1 THEN -1
    ELSE IF a.pre < b.pre THEN -1 ELSE 1

\* -1, 0, 1: the order of packaging's comparison key (release, pre)
VersionCmp(a, b) == CmpPre(CmpRelease(a.release, b.release, 1), a, b)

VersionLt(a, b) == VersionCmp(a, b) = -1
VersionLe(a, b) == VersionCmp(a, b) <= 0
VersionEq(a, b) == VersionCmp(a, b) = 0

(***************************************************************************)
(* _determine_latest_version                                               *)
(***************************************************************************)
PRERELEASES == FALSE

SEMVER == [major |-> 0, minor |-> 1, patch |-> 2]

Targets == {"major", "minor", "patch"}

\* slice with its last component incremented, <<>> (None) for an empty slice
Increment(slice) ==
    IF Len(slice) = 0 THEN <<>> ELSE [slice EXCEPT ![Len(slice)] = @ + 1]

\* Ceiling with the slice one component too long (current_version[0:index + 1])
Ceiling_OffByOne(current, target) ==
    Increment(SubSeq(current.release, 1,
                     MinOf(SEMVER[target] + 1, Len(current.release))))

\* list(current_version[0:index]) with its last component incremented; the
\* empty sequence stands for ceiling = None
Ceiling(current, target) ==
    Increment(SubSeq(current.release, 1,
                     MinOf(SEMVER[target], Len(current.release))))

\* what the two SpecifierSet filters let through
Kept(v, ceiling) ==
    /\ v.ok
    /\ (PRERELEASES \/ ~is_prerelease(v))
    /\ (ceiling # <<>> => CmpRelease(v.release, ceiling, 1) = -1)

\* the generator _parse_versions, then the two SpecifierSet filters
RECURSIVE FilterVersions(_, _, _)
FilterVersions(versions, ceiling, i) ==
    IF i > Len(versions) THEN <<>>
    ELSE (IF Kept(Version(versions[i]), ceiling)
          THEN <<Version(versions[i])>> ELSE <<>>)
         \o FilterVersions(versions, ceiling, i + 1)

\* max(sorted(versions)): sorted is stable and max keeps the first maximum,
\* so among equal versions the first in iteration order is returned
RECURSIVE FirstMax(_, _, _)
FirstMax(vs, i, best) ==
    IF i > Len(vs) THEN best
    ELSE FirstMax(vs, i + 1, IF VersionLt(best, vs[i]) THEN vs[i] ELSE best)

NoVersion == [ok |-> FALSE, raw_version |-> ""]

Latest(kept) ==
    IF Len(kept) = 0 THEN NoVersion
    ELSE [ok |-> TRUE, raw_version |-> FirstMax(kept, 2, kept[1]).raw_version]

\* ok = FALSE stands for the ValueError of max() on an empty sequence, or
\* the InvalidVersion of an unparseable current version
_determine_latest_version(current_version, target, versions) ==
    IF ~Version(current_version).ok THEN NoVersion
    ELSE Latest(FilterVersions(versions,
                               Ceiling(Version(current_version), target), 1))

(***************************************************************************)
(* The assignment regex of _get_values and _get_line_and_value: the        *)
(* attribute, whitespace, an equals sign, whitespace, and a quoted value   *)
(* closed by a quote and a semicolon; the value is any run of characters   *)
(* (value is None) or the escaped, literal value.  It is matched as        *)
(* re.findall matches it: leftmost, the whitespace and the any-run greedy, *)
(* the any-run never crossing a line break, and the next match sought      *)
(* after the end of the previous one.                                      *)
(***************************************************************************)
None == "<None>"

Whitespace == {" ", "\n", "\t"}

\* the position after the run of whitespace that starts at i
SkipWs(s, i) ==
    CHOOSE k \in i..MaxOf(i, Len(s) + 1) :
        /\ At(s, k) \notin Whitespace
        /\ \A h \in i..(k - 1) : At(s, h) \in Whitespace

\* the position of the line break that ends the line holding i (Len + 1 if none)
LineEnd(s, i) ==
    CHOOSE k \in i..MaxOf(i, Len(s) + 1) :
        /\ (k > Len(s) \/ At(s, k) = "\n")
        /\ \A h \in i..(k - 1) : At(s, h) # "\n"

\* the largest q in lo..hi where a quote and a semicolon stand, or 0: the
\* place the greedy any-run gives back to
LastClose(s, lo, hi) == MaxOrZero({q \in lo..hi : StartsWithAt(s, q, "\";")})

NoMatch == [matched |-> FALSE, pos |-> 0, line |-> "", value |-> ""]

\* the any-run from v0, closed at q
MatchAny(text, i, v0, q) ==
    IF q = 0 THEN NoMatch
    ELSE [matched |-> TRUE, pos |-> i, line |-> SubSeq(text, i, q + 1),
          value |-> SubSeq(text, v0, q - 1)]

\* the value from v0, after the opening quote
MatchValue(text, i, v0, value) ==
    IF value = None
    THEN MatchAny(text, i, v0, LastClose(text, v0, LineEnd(text, v0) - 2))
    ELSE IF StartsWithAt(text, v0, value \o "\";")
    THEN [matched |-> TRUE, pos |-> i,
          line |-> SubSeq(text, i, v0 + Len(value) + 1), value |-> value]
    ELSE NoMatch

\* the whitespace from j up to m, then the opening quote
MatchQuote(text, i, j, m, value) ==
    IF m > j /\ At(text, m) = "\"" THEN MatchValue(text, i, m + 1, value)
    ELSE NoMatch

\* the whitespace from j up to k, then the equals sign
MatchEquals(text, i, j, k, value) ==
    IF k > j /\ At(text, k) = "="
    THEN MatchQuote(text, i, k + 1, SkipWs(text, k + 1), value)
    ELSE NoMatch

\* the match of the regex that starts exactly at i, if there is one
MatchAt(attribute, text, i, value) ==
    IF ~StartsWithAt(text, i, attribute) THEN NoMatch
    ELSE MatchEquals(text, i, i + Len(attribute),
                     SkipWs(text, i + Len(attribute)), value)

\* regex.findall(text): the matches in text order
RECURSIVE FindAll(_, _, _, _)
FindRest(attribute, text, value, m) ==
    <<m>> \o FindAll(attribute, text, m.pos + Len(m.line), value)

FindNext(attribute, text, value, k) ==
    IF k = 0 THEN <<>>
    ELSE FindRest(attribute, text, value, MatchAt(attribute, text, k, value))

FindAll(attribute, text, i, value) ==
    FindNext(attribute, text, value,
             MinOrZero({k \in i..Len(text) :
                          MatchAt(attribute, text, k, value).matched}))

ValuesOf(ms) == [i \in 1..Len(ms) |-> ms[i].value]

_get_values(attribute, text) == ValuesOf(FindAll(attribute, text, 1, None))

NoValue == [ok |-> FALSE, err |-> "", pos |-> 0, line |-> "", value |-> ""]

Unique(values) ==
    IF Len(values) > 1 THEN [NoValue EXCEPT !.err = "found too many values"]
    ELSE IF Len(values) = 1 THEN [NoValue EXCEPT !.ok = TRUE, !.value = values[1]]
    ELSE [NoValue EXCEPT !.err = "no value found"]

_get_unique_value(attribute, text) == Unique(_get_values(attribute, text))

Single(results) ==
    IF Len(results) > 1 THEN [NoValue EXCEPT !.err = "found too many values"]
    ELSE IF Len(results) = 1
    THEN [ok |-> TRUE, err |-> "", pos |-> results[1].pos,
          line |-> results[1].line, value |-> results[1].value]
    ELSE [NoValue EXCEPT !.err = "no value found"]

_get_line_and_value(attribute, text, value) ==
    Single(FindAll(attribute, text, 1, value))

NoText == [ok |-> FALSE, err |-> "", text |-> ""]

\* new_line and new_text of _replace_value
ReplaceFound(found, value, text) ==
    IF ~found.ok THEN [NoText EXCEPT !.err = found.err]
    ELSE [ok |-> TRUE, err |-> "",
          text |-> StrReplace(text, found.line,
                              StrReplace(found.line, found.value, value))]

_replace_value(attribute, value, text, oldvalue) ==
    ReplaceFound(_get_line_and_value(attribute, text, oldvalue), value, text)

(***************************************************************************)
(* _determine_fetcher and _determine_extension                             *)
(***************************************************************************)
FETCHERS == <<"fetchFromGitHub", "fetchPypi", "fetchurl">>

FORMATS == [setuptools |-> "tar.gz", wheel |-> "whl", pyproject |-> "tar.gz",
            flit |-> "tar.gz"]

NoFetcher == [kind |-> "ValueError", reason |-> "", fetcher |-> ""]

\* sum(text.count("src = {}".format(fetcher)) for fetcher in FETCHERS.keys())
CountFetchers(text) ==
    StrCount(text, "src = " \o FETCHERS[1]) + StrCount(text, "src = " \o FETCHERS[2])
        + StrCount(text, "src = " \o FETCHERS[3])

WhichFetcher(text, nfetchers) ==
    IF nfetchers = 0 THEN [NoFetcher EXCEPT !.reason = "no fetcher"]
    ELSE IF nfetchers > 1 THEN [NoFetcher EXCEPT !.reason = "multiple fetchers"]
    ELSE [kind |-> "ok", reason |-> "",
          fetcher |-> FETCHERS[MinOrZero({k \in 1..3 :
                                 Contains(text, "src = " \o FETCHERS[k])})]]

_determine_fetcher(text) == WhichFetcher(text, CountFetchers(text))

\* the extension from the position of the last dot of the last component,
\* "" when the component has no dot after its leading dots
ExtFrom(url, base, last) ==
    IF last = 0 THEN ""
    ELSE IF \A h \in base..(last - 1) : At(url, h) = "." THEN ""
    ELSE SubSeq(url, last, Len(url))

ExtOfBase(url, base) ==
    ExtFrom(url, base, MaxOrZero({k \in base..Len(url) : At(url, k) = "."}))

\* os.path.splitext(url)[1]
SplitExt(url) ==
    ExtOfBase(url, 1 + MaxOrZero({k \in 1..Len(url) : At(url, k) = "/"}))

Extension(kind, reason, extension) ==
    [kind |-> kind, reason |-> reason, extension |-> extension]

\* the fetchPypi branch, f and e the format and extension values
ExtensionPypi(f, e) ==
    IF e.ok THEN Extension("ok", "", e.value)
    ELSE IF ~f.ok THEN Extension("ok", "", FORMATS["setuptools"])
    ELSE IF f.value = "other" THEN Extension("ValueError", "format other", "")
    ELSE IF f.value \in DOMAIN FORMATS THEN Extension("ok", "", FORMATS[f.value])
    ELSE Extension("Exception", "KeyError: format", "")

\* the fetchurl branch, u the url value
ExtensionUrl(u) ==
    IF ~u.ok THEN Extension("ValueError", u.err, "")
    ELSE IF ~Contains(u.value, "pypi")
    THEN Extension("ValueError", "url does not point to PyPI", "")
    ELSE Extension("ok", "", SplitExt(u.value))

_determine_extension(text, fetcher) ==
    IF fetcher = "fetchPypi"
    THEN ExtensionPypi(_get_unique_value("format", text),
                       _get_unique_value("extension", text))
    ELSE IF fetcher = "fetchurl" THEN ExtensionUrl(_get_unique_value("url", text))
    ELSE Extension("ok", "", "tar.gz")

(***************************************************************************)
(* _get_latest_version_pypi, after _fetch_page returned the document: json *)
(* is the sequence of its releases, [version, files], a file being         *)
(* [filename, yanked, sha256].                                             *)
(***************************************************************************)
AllYanked(files) == \A k \in 1..Len(files) : files[k].yanked

\* the set comprehension over json["releases"].items()
PypiVersions(json) ==
    {json[k].version : k \in {h \in 1..Len(json) : ~AllYanked(json[h].files)}}

\* the orders a set of strings may be iterated in
Orders(S) == {q \in SeqsUpTo(S, Cardinality(S)) : Len(q) = Cardinality(S)}

NoFetch == [kind |-> "ok", reason |-> "", version |-> "", sha256 |-> "", prefix |-> ""]

\* the for/else over the files of the release: the first whose name ends
\* with the extension gives the digest, none gives sha256 = None (here "")
DigestAt(files, k) == IF k = 0 THEN "" ELSE files[k].sha256

FirstDigest(files, extension) ==
    DigestAt(files, MinOrZero({k \in 1..Len(files) :
                                 EndsWith(files[k].filename, extension)}))

\* json["releases"][version], k the place of the version among the releases
ReleaseOf(json, k, version, extension) ==
    IF k = 0
    THEN [NoFetch EXCEPT !.kind = "Exception", !.reason = "KeyError: version"]
    ELSE [NoFetch EXCEPT !.version = version,
                         !.sha256 = FirstDigest(json[k].files, extension)]

Resolved(json, r, extension) ==
    IF ~r.ok THEN [NoFetch EXCEPT !.kind = "ValueError", !.reason = "no version"]
    ELSE ReleaseOf(json, MinOrZero({k \in 1..Len(json) :
                                      json[k].version = r.raw_version}),
                   r.raw_version, extension)

\* order is the order in which the set of versions is iterated
_get_latest_version_pypi(json, order, extension, current_version, target) ==
    Resolved(json, _determine_latest_version(current_version, target, order),
             extension)

(***************************************************************************)
(* _get_latest_version_github, after _fetch_github returned the releases   *)
(* ([tag_name, prerelease]) and with the digest the prefetch helper gave.  *)
(***************************************************************************)
\* the length of the leading run of characters that are no digit
PrefixLen(tag) ==
    CHOOSE n \in 0..Len(tag) :
        /\ \A h \in 1..n : At(tag, h) \notin Digits
        /\ (n = Len(tag) \/ At(tag, n + 1) \in Digits)

strip_prefix(tag) == SubSeq(tag, PrefixLen(tag) + 1, Len(tag))

get_prefix(string) == SubSeq(string, 1, PrefixLen(string))

RECURSIVE StableReleases(_, _)
StableReleases(all_releases, i) ==
    IF i > Len(all_releases) THEN <<>>
    ELSE (IF all_releases[i].prerelease THEN <<>> ELSE <<all_releases[i]>>)
         \o StableReleases(all_releases, i + 1)

StrippedTags(releases) ==
    [k \in 1..Len(releases) |-> strip_prefix(releases[k].tag_name)]

\* next(filter(...)): the first release whose stripped tag is the version
ResolvedRelease(releases, r, hash) ==
    IF ~r.ok THEN [NoFetch EXCEPT !.kind = "ValueError", !.reason = "no version"]
    ELSE [NoFetch EXCEPT
            !.version = r.raw_version, !.sha256 = hash,
            !.prefix = get_prefix(
                releases[MinOrZero({k \in 1..Len(releases) :
                    strip_prefix(releases[k].tag_name) = r.raw_version})].tag_name)]

LatestOfStable(releases, hash, current_version, target) ==
    IF Len(releases) = 0
    THEN [NoFetch EXCEPT !.kind = "ValueError", !.reason = "no stable releases"]
    ELSE ResolvedRelease(releases,
                         _determine_latest_version(current_version, target,
                                                   StrippedTags(releases)),
                         hash)

_get_latest_version_github(all_releases, hash, current_version, target) ==
    LatestOfStable(StableReleases(all_releases, 1), hash, current_version, target)

(***************************************************************************)
(* The tail of _update_package: the comparison of the versions, the three  *)
(* substitutions and the rewrite of the rev/tag line and the changelog.    *)
(***************************************************************************)
\* version comparison with the downgrade test made first
Compare_DowngradeFirst(new_version, version, new_sha256) ==
    IF VersionLe(Version(new_version), Version(version)) THEN "Downgrade"
    ELSE IF new_version = version THEN "NoOpSkip"
    ELSE IF new_sha256 = "" THEN "NoArtifact"
    ELSE "Newer"

\* the if / elif / if after the identifier loop
Compare(new_version, version, new_sha256) ==
    IF new_version = version THEN "NoOpSkip"
    ELSE IF VersionLe(Version(new_version), Version(version)) THEN "Downgrade"
    ELSE IF new_sha256 = "" THEN "NoArtifact"
    ELSE "Newer"

\* _hash_to_sri: the digest in its self-describing form
_hash_to_sri(algorithm, value) == algorithm \o "-" \o value

\* The regex  (rev or tag), whitespace, an equals sign, whitespace, any run
\* without a semicolon, a semicolon: the match that starts at i, or ""
RevClose(text, i, q) == IF q = 0 THEN "" ELSE SubSeq(text, i, q)

RevValue(text, i, j, m) ==
    IF m > j THEN RevClose(text, i, IndexFrom(text, ";", m)) ELSE ""

RevEquals(text, i, j, k) ==
    IF k > j /\ At(text, k) = "=" THEN RevValue(text, i, k + 1, SkipWs(text, k + 1))
    ELSE ""

RevMatchAt(text, i) ==
    IF StartsWithAt(text, i, "rev") \/ StartsWithAt(text, i, "tag")
    THEN RevEquals(text, i, i + 3, SkipWs(text, i + 3))
    ELSE ""

RevLineAt(text, i) == IF i = 0 THEN "" ELSE RevMatchAt(text, i)

\* matches[0] of regex.findall(text), "" when there is no match
FirstRevMatch(text) ==
    RevLineAt(text, MinOrZero({i \in 1..Len(text) : RevMatchAt(text, i) # ""}))

\* re.search of the changelog assignment, its value a non-empty run without
\* a quote: the match that starts at i, or ""
ChangelogClose(text, i, v0, q) ==
    IF q > v0 /\ At(text, q + 1) = ";" THEN SubSeq(text, i, q + 1) ELSE ""

ChangelogMatchAt(text, i) ==
    IF StartsWithAt(text, i, "changelog = \"")
    THEN ChangelogClose(text, i, i + 13, IndexFrom(text, "\"", i + 13))
    ELSE ""

ChangelogLineAt(text, i) == IF i = 0 THEN "" ELSE ChangelogMatchAt(text, i)

FirstChangelogMatch(text) ==
    ChangelogLineAt(text,
                    MinOrZero({i \in 1..Len(text) : ChangelogMatchAt(text, i) # ""}))

\* the length of the match of  \$\{(version|src.rev)\}  at k, or 0
InterpolationRest(s, k) ==
    IF StartsWithAt(s, k, "${version}") THEN 10
    ELSE IF /\ StartsWithAt(s, k, "${src")
            /\ At(s, k + 5) \notin {"", "\n"}
            /\ StartsWithAt(s, k + 6, "rev}")
    THEN 10
    ELSE 0

\* the length of the match of  v?\$\{(version|src.rev)\}  at i, or 0
InterpolationLen(s, i) ==
    IF At(s, i) = "v" /\ InterpolationRest(s, i + 1) > 0
    THEN 1 + InterpolationRest(s, i + 1)
    ELSE InterpolationRest(s, i)

\* re.sub of that pattern by ${src.tag}
RECURSIVE SubInterpolations(_, _)
SubNext(s, i, k) ==
    IF k = 0 THEN SubSeq(s, i, Len(s))
    ELSE SubSeq(s, i, k - 1) \o "${src.tag}"
             \o SubInterpolations(s, k + InterpolationLen(s, k))

SubInterpolations(s, i) ==
    SubNext(s, i, MinOrZero({k \in i..Len(s) : InterpolationLen(s, k) > 0}))

\* the changelog assignment cl_old of the text replaced by cl_new
SubChangelog(text, cl_old) ==
    IF cl_old = "" THEN text
    ELSE StrReplace(text, cl_old, SubInterpolations(cl_old, 1))

RewriteChangelog(text) == SubChangelog(text, FirstChangelogMatch(text))

RewriteTag(text, prefix, match) ==
    IF match = "" THEN [NoText EXCEPT !.err = "NoRevAssignment"]
    ELSE [ok |-> TRUE, err |-> "",
          text |-> RewriteChangelog(
                     StrReplace(StrReplace(text, match,
                                           "tag = \"" \o prefix \o "${version}\";"),
                                "\"${version}\";", "version;"))]

\* the body of  if fetcher == "fetchFromGitHub"
RewriteRev(text, prefix) == RewriteTag(text, prefix, FirstRevMatch(text))

HashOrSha256(h, text, sri_hash, old_hash) ==
    IF h.ok THEN h ELSE _replace_value("sha256", sri_hash, text, old_hash)

\* the substitution of the checksum: hash, and sha256 when hash fails
ReplaceHash(text, sri_hash, old_hash) ==
    HashOrSha256(_replace_value("hash", sri_hash, text, old_hash), text,
                 sri_hash, old_hash)

\* how an attempt ends; text is the text at that point
Done(outcome, reason, text) ==
    [outcome |-> outcome, reason |-> reason, text |-> text]

AfterRev(r, text) ==
    IF ~r.ok THEN Done("Failed", r.err, text) ELSE Done("Updated", "", r.text)

AfterHash(h, text, fetcher, prefix) ==
    IF ~h.ok THEN Done("Failed", h.err, text)
    ELSE IF fetcher # "fetchFromGitHub" THEN Done("Updated", "", h.text)
    ELSE AfterRev(RewriteRev(h.text, prefix), h.text)

AfterVersion(v, text, fetcher, fetched, sri_ok, old_hash) ==
    IF ~v.ok THEN Done("Failed", v.err, text)
    ELSE IF ~sri_ok THEN Done("Raised", "CalledProcessError: hash to-sri", v.text)
    ELSE IF old_hash = "" THEN Done("Failed", "NoOldHash", v.text)
    ELSE AfterHash(ReplaceHash(v.text, _hash_to_sri("sha256", fetched.sha256),
                               old_hash),
                   v.text, fetcher, fetched.prefix)

AfterCompare(cmp, text, fetcher, fetched, sri_ok, old_hash) ==
    IF cmp = "NoOpSkip" THEN Done("NoOpSkip", "", text)
    ELSE IF cmp \in {"Downgrade", "NoArtifact"} THEN Done("Failed", cmp, text)
    ELSE AfterVersion(_replace_value("version", fetched.version, text, None),
                      text, fetcher, fetched, sri_ok, old_hash)

\* From the comparison to the text to write.  sri_ok tells whether the
\* external nix hash to-sri succeeded, old_hash is the evaluated
\* src.outputHash ("" when the evaluation gives nothing).
PatchText(text, fetcher, version, fetched, sri_ok, old_hash) ==
    AfterCompare(Compare(fetched.version, version, fetched.sha256), text,
                 fetcher, fetched, sri_ok, old_hash)

\* the write of the file also when the attempt failed
Written_AlsoOnFailure(r) == r.outcome \in {"Updated", "Failed", "Raised"}

\* open(path, "w") is reached exactly when nothing raised or returned before
Written(r) == r.outcome = "Updated"

(***************************************************************************)
(* State.                                                                  *)
(***************************************************************************)
VARIABLES
    resolver,       \* one call of _determine_latest_version: inputs and result
    patcher,        \* one use of the text patcher: inputs and results
    disk,           \* the files: path -> text
    packages,       \* args.package after os.path.abspath, in order
    target,         \* args.target
    upstream,       \* what PyPI and the GitHub release API answer
    max_workers,    \* the size of the pool
    BULK_UPDATE,    \* the global flag
    task,           \* one entry per element of packages: the future and the
                    \* locals of its _update / _update_package call
    main            \* the main thread: its position and the results it has

batch == <<disk, packages, target, upstream, max_workers, BULK_UPDATE, task, main>>

vars == <<resolver, patcher, batch>>

ResolverOff == [pc |-> "off"]
PatcherOff == [pc |-> "off"]

\* the batch variables of a specification that runs no batch
BatchOff ==
    /\ disk = <<>>
    /\ packages = <<>>
    /\ target = "major"
    /\ upstream = <<>>
    /\ max_workers = 0
    /\ BULK_UPDATE = FALSE
    /\ task = <<>>
    /\ main = [pc |-> "off"]

(***************************************************************************)
(* SpecResolve: _determine_latest_version applied to bounded inputs.       *)
(***************************************************************************)
CurrentVersions == {"1.2.3", "1.9.9", "1"}

CandidateStrings ==
    {"1.2.4", "1.3.0", "2.0.0", "1.3.0rc1", "1.9.10", "1.10.0", "1.3", "latest"}

InitResolve ==
    /\ \E c \in CurrentVersions, t \in Targets,
          vs \in SeqsUpTo(CandidateStrings, MaxVersions) :
           resolver = [pc |-> "call", current_version |-> c, target |-> t,
                       versions |-> vs, result |-> NoVersion]
    /\ patcher = PatcherOff
    /\ BatchOff

Resolve ==
    /\ resolver.pc = "call"
    /\ resolver' = [resolver EXCEPT
                      !.pc = "returned",
                      !.result = _determine_latest_version(
                                     resolver.current_version, resolver.target,
                                     resolver.versions)]
    /\ UNCHANGED <<patcher, batch>>

NextResolve == Resolve

SpecResolve == InitResolve /\ [][NextResolve]_vars

(***************************************************************************)
(* SpecPatch: _get_line_and_value on a text, _replace_value on it, and     *)
(* _get_line_and_value again on the text _replace_value returned.          *)
(***************************************************************************)
PatchAttributes == {"version", "sha256"}

PatchPieces ==
    {"version = \"1.0\";\n",
     "  version   =\t\"1.1\";\n",
     "version = \"1.0\"; ",
     "version = \"\";\n",
     "version = \"on\";\n",
     "version = 1;\n",
     "sha256 = \"256\";\n",
     "sha256 = \"1.0\";\n",
     "pname = \"a\";\n"}

PatchValues == {"2.0", "sha256-B"}

PatchOldValues == {None, "1.0", "256"}

RECURSIVE Concat(_, _)
Concat(q, i) == IF i > Len(q) THEN "" ELSE q[i] \o Concat(q, i + 1)

PatchTexts == {Concat(q, 1) : q \in SeqsWithRepetition(PatchPieces, MaxPieces)}

InitPatch ==
    /\ \E a \in PatchAttributes, t \in PatchTexts, v \in PatchValues,
          o \in PatchOldValues :
           patcher = [pc |-> "find", attribute |-> a, text |-> t, value |-> v,
                      oldvalue |-> o, found |-> NoValue, replaced |-> NoText,
                      refound |-> NoValue]
    /\ resolver = ResolverOff
    /\ BatchOff

GetLineAndValue ==
    /\ patcher.pc = "find"
    /\ patcher' = [patcher EXCEPT
                     !.pc = "replace",
                     !.found = _get_line_and_value(patcher.attribute,
                                                   patcher.text, patcher.oldvalue)]
    /\ UNCHANGED <<resolver, batch>>

ReplaceValue ==
    /\ patcher.pc = "replace"
    /\ patcher' = [patcher EXCEPT
                     !.pc = "refind",
                     !.replaced = _replace_value(patcher.attribute, patcher.value,
                                                 patcher.text, patcher.oldvalue)]
    /\ UNCHANGED <<resolver, batch>>

GetLineAndValueAgain ==
    /\ patcher.pc = "refind"
    /\ patcher.replaced.ok
    /\ patcher' = [patcher EXCEPT
                     !.pc = "done",
                     !.refound = _get_line_and_value(
                                    patcher.attribute, patcher.replaced.text,
                                    IF patcher.oldvalue = None THEN None
                                    ELSE patcher.value)]
    /\ UNCHANGED <<resolver, batch>>

NextPatch == GetLineAndValue \/ ReplaceValue \/ GetLineAndValueAgain

SpecPatch == InitPatch /\ [][NextPatch]_vars

(***************************************************************************)
(* Spec: one batch run of main.  The pool runs _update for every element   *)
(* of packages; an _update call proceeds in steps that end where it blocks *)
(* on the file system, the network or an external helper.                  *)
(***************************************************************************)
TextPypi ==
    "pname = \"a\";\nversion = \"1.0\";\nsrc = fetchPypi {\npname = \"b\";\nhash = \"sha256-A\";\n};\n"

TextGitHub ==
    "pname = \"a\";\nversion = \"1.0\";\nname = \"${version}\";\nsrc = fetchFromGitHub {\nrev = \"v${version}\";\nhash = \"sha256-A\";\n};\nchangelog = \"u/v${version}\";\n"

TextUrl ==
    "pname = \"a\";\nversion = \"1.0\";\nsrc = fetchurl {\nurl = \"pypi/a.zip\";\nsha256 = \"sha256-A\";\n};\n"

TextOther ==
    "pname = \"b\";\nversion = \"1.0\";\nformat = \"egg\";\nsrc = fetchPypi {\nhash = \"sha256-A\";\n};\n"

DefTexts == {TextPypi, TextGitHub, TextUrl}

Dirs == {"a", "c"}

PathChoices == {"a", "a/default.nix", "b/default.nix", "c", "a/notes.txt"}

File(filename, yanked, sha256) ==
    [filename |-> filename, yanked |-> yanked, sha256 |-> sha256]

Upstreams ==
    {[json |-> <<[version |-> "1.0", files |-> <<File("a-1.0.tar.gz", FALSE, "aa")>>],
                 [version |-> "1.1", files |-> <<File("a-1.1.whl", FALSE, "bw"),
                                                 File("a-1.1.tar.gz", FALSE, "bb"),
                                                 File("a-1.1.zip", FALSE, "bz")>>],
                 [version |-> "1.2", files |-> <<File("a-1.2.tar.gz", TRUE, "cc")>>],
                 [version |-> "2.0rc1", files |-> <<File("a-2.0rc1.tar.gz", FALSE, "dd")>>]>>,
      releases |-> <<[tag_name |-> "v2.0", prerelease |-> TRUE],
                     [tag_name |-> "v1.1", prerelease |-> FALSE],
                     [tag_name |-> "v1.0", prerelease |-> FALSE]>>],
     [json |-> <<[version |-> "1.0.0", files |-> <<File("a-1.0.0.tar.gz", FALSE, "aa"),
                                                   File("a-1.0.0.zip", FALSE, "az")>>]>>,
      releases |-> <<[tag_name |-> "1.0.0", prerelease |-> FALSE]>>],
     [json |-> <<[version |-> "0.9", files |-> <<File("a-0.9.tar.gz", FALSE, "ee")>>],
                 [version |-> "latest", files |-> <<>>]>>,
      releases |-> <<[tag_name |-> "release-0.9", prerelease |-> FALSE]>>],
     [json |-> <<[version |-> "1.1", files |-> <<File("a-1.1.whl", FALSE, "bw")>>]>>,
      releases |-> <<[tag_name |-> "1.1", prerelease |-> FALSE]>>],
     [json |-> <<[version |-> "1.0", files |-> <<File("a-1.0.tar.gz", FALSE, "aa")>>],
                 [version |-> "1.1", files |-> <<File("a-1.1.tar.gz", TRUE, "by"),
                                                 File("a-1.1.whl", FALSE, "bw")>>]>>,
      releases |-> <<[tag_name |-> "v1.0", prerelease |-> FALSE]>>]}

BatchTargets == {"major", "patch"}

\* what the evaluation of src.outputHash may give: nothing, the hash the
\* definitions declare, or another hash
OldHashes == {"", "sha256-A", "sha256-Z"}

\* the digest the prefetch helpers of the GitHub fetcher return
PrefetchedHash == "gg"

NewTask(path) ==
    [pc |-> "pending", path |-> path, file |-> "", text |-> "", pnames |-> <<>>,
     version |-> "", fetcher |-> "", extension |-> "", attempts |-> <<>>,
     fetched |-> NoFetch, outcome |-> "", reason |-> "", writes |-> 0,
     written |-> ""]

Init ==
    /\ resolver = ResolverOff
    /\ patcher = PatcherOff
    /\ \E a \in DefTexts :
         disk = [f \in {"a/default.nix", "b/default.nix", "a/notes.txt"} |->
                   IF f = "a/default.nix" THEN a
                   ELSE IF f = "b/default.nix" THEN TextOther ELSE "notes\n"]
    /\ packages \in SeqsWithRepetition(PathChoices, MaxPackages)
    /\ target \in BatchTargets
    /\ upstream \in Upstreams
    /\ max_workers \in 1..MaxWorkers
    /\ BULK_UPDATE = FALSE
    /\ task = [i \in 1..Len(packages) |-> NewTask(packages[i])]
    /\ main = [pc |-> "init", next |-> 1, results |-> <<>>]

Tasks == 1..Len(packages)

Active(i) == task[i].pc \in {"read", "fetch", "patch"}

\* the call ends: _update returns, or an exception leaves it
Ended(t, outcome, reason) ==
    [t EXCEPT !.pc = "done", !.outcome = outcome, !.reason = reason]

\* main, up to p.map: the flag is set, then every package is submitted
Submit ==
    /\ main.pc = "init"
    /\ BULK_UPDATE' = (Len(packages) > 1)
    /\ main' = [main EXCEPT !.pc = "collect"]
    /\ UNCHANGED <<resolver, patcher, disk, packages, target, upstream,
                   max_workers, task>>

\* _update, path being the path after the isdir test
Checked(t, path) ==
    IF path \notin DOMAIN disk THEN Ended(t, "Skipped", "does not exist")
    ELSE IF ~EndsWith(path, ".nix") THEN Ended(t, "Skipped", "does not end with .nix")
    ELSE [t EXCEPT !.pc = "read", !.file = path]

_update(t) ==
    Checked(t, IF t.path \in Dirs THEN t.path \o "/default.nix" ELSE t.path)

\* a worker takes the next work item of the queue and runs _update up to
\* the call of _update_package
Start(i) ==
    /\ main.pc # "init"
    /\ task[i].pc = "pending"
    /\ \A j \in 1..(i - 1) : task[j].pc # "pending"
    /\ Cardinality({j \in Tasks : Active(j)}) < max_workers
    /\ task' = [task EXCEPT ![i] = _update(task[i])]
    /\ UNCHANGED <<resolver, patcher, disk, packages, target, upstream,
                   max_workers, BULK_UPDATE, main>>

Parsed(t, version, fetcher, extension) ==
    [t EXCEPT !.version = version, !.fetcher = fetcher, !.extension = extension]

WithExtension(t, version, fetcher, e) ==
    IF e.kind # "ok"
    THEN Ended(Parsed(t, version, fetcher, ""),
               IF e.kind = "ValueError" THEN "Failed" ELSE "Raised", e.reason)
    ELSE IF Len(t.pnames) = 0
    THEN Ended(Parsed(t, version, fetcher, e.extension), "Failed",
               "NoMatchingIdentifier")
    ELSE [Parsed(t, version, fetcher, e.extension) EXCEPT !.pc = "fetch"]

WithFetcher(t, version, f) ==
    IF f.kind # "ok" THEN Ended(Parsed(t, version, "", ""), "Failed", f.reason)
    ELSE WithExtension(t, version, f.fetcher, _determine_extension(t.text, f.fetcher))

WithVersion(t, version) ==
    IF ~version.ok THEN Ended(t, "Failed", version.err)
    ELSE WithFetcher(t, version.value, _determine_fetcher(t.text))

\* _update_package from open(path) to the identifier loop
ReadDefinition(t, text) ==
    WithVersion([t EXCEPT !.text = text, !.pnames = _get_values("pname", text)],
                _get_unique_value("version", text))

Read(i) ==
    /\ task[i].pc = "read"
    /\ task' = [task EXCEPT ![i] = ReadDefinition(task[i], disk[task[i].file])]
    /\ UNCHANGED <<resolver, patcher, disk, packages, target, upstream,
                   max_workers, BULK_UPDATE, main>>

\* what the world does in one iteration of the identifier loop
Externals == {"BulkSkip", "Cargo", "FetchValueError", "FetchException", "Answer"}

\* FETCHERS[fetcher](...) once the request has been answered
Fetch(t, order) ==
    IF t.fetcher = "fetchFromGitHub"
    THEN _get_latest_version_github(upstream.releases, PrefetchedHash,
                                    t.version, target)
    ELSE _get_latest_version_pypi(upstream.json, order, t.extension,
                                  t.version, target)

\* the call of the fetcher: answered, or failing on the way
Fetcher(x, t, order) ==
    IF x = "Answer" THEN Fetch(t, order)
    ELSE IF x = "FetchValueError"
    THEN [NoFetch EXCEPT !.kind = "ValueError", !.reason = "request failed"]
    ELSE [NoFetch EXCEPT !.kind = "Exception", !.reason = "ConnectionError"]

Attempted(t, result) ==
    [t EXCEPT !.attempts = Append(@, [pname |-> t.pnames[Len(t.attempts) + 1],
                                      result |-> result])]

\* try / except ValueError: continue , and the raise after the loop
Fetched(t, r) ==
    IF r.kind = "ok" THEN [t EXCEPT !.pc = "patch", !.fetched = r]
    ELSE IF r.kind = "Exception" THEN Ended(t, "Raised", r.reason)
    ELSE IF Len(t.attempts) = Len(t.pnames)
    THEN Ended(t, "Failed", "NoMatchingIdentifier")
    ELSE t

Iteration(t, x, r) ==
    IF x = "BulkSkip" THEN Ended(Attempted(t, x), "Failed", "BulkSkip")
    ELSE IF x = "Cargo"
    THEN Ended(Attempted(t, x), "Failed", "UnsupportedBuildDependency")
    ELSE Fetched(Attempted(t, r.kind), r)

\* one iteration of  for pname in pnames , and what follows the loop when
\* it was the last one
TryIdentifier(i) ==
    /\ task[i].pc = "fetch"
    /\ \E x \in Externals :
         /\ x = "BulkSkip" => BULK_UPDATE
         /\ \E order \in IF x = "Answer" /\ task[i].fetcher # "fetchFromGitHub"
                         THEN Orders(PypiVersions(upstream.json)) ELSE {<<>>} :
              task' = [task EXCEPT ![i] = Iteration(task[i], x,
                                                    Fetcher(x, task[i], order))]
    /\ UNCHANGED <<resolver, patcher, disk, packages, target, upstream,
                   max_workers, BULK_UPDATE, main>>

\* the end of _update_package, r being what PatchText gives
WriteBack(i, r) ==
    /\ disk' = IF Written(r) THEN [disk EXCEPT ![task[i].file] = r.text] ELSE disk
    /\ task' = [task EXCEPT ![i] =
                  [Ended(task[i], r.outcome, r.reason) EXCEPT
                     !.writes = IF Written(r) THEN @ + 1 ELSE @,
                     !.written = IF Written(r) THEN r.text ELSE @]]

\* _update_package from the comparison of the versions to its return
PatchAndWrite(i) ==
    /\ task[i].pc = "patch"
    /\ \E sri_ok \in BOOLEAN, old_hash \in OldHashes :
         WriteBack(i, PatchText(task[i].text, task[i].fetcher, task[i].version,
                                task[i].fetched, sri_ok, old_hash))
    /\ UNCHANGED <<resolver, patcher, packages, target, upstream, max_workers,
                   BULK_UPDATE, main>>

\* main takes the next result of p.map, in the order of packages; the
\* exception of a call is raised again here, the futures not yet started
\* are cancelled and main ends with the exception
Collect ==
    /\ main.pc = "collect"
    /\ main.next <= Len(packages)
    /\ task[main.next].pc = "done"
    /\ IF task[main.next].outcome = "Raised"
       THEN /\ main' = [main EXCEPT !.pc = "crashed"]
            /\ task' = [i \in Tasks |->
                          IF task[i].pc = "pending"
                          THEN [task[i] EXCEPT !.pc = "cancelled"] ELSE task[i]]
       ELSE /\ main' = [main EXCEPT
                          !.next = @ + 1,
                          !.results = IF task[main.next].outcome = "Updated"
                                      THEN Append(@, main.next) ELSE @,
                          !.pc = IF main.next = Len(packages) THEN "finished" ELSE @]
            /\ UNCHANGED task
    /\ UNCHANGED <<resolver, patcher, disk, packages, target, upstream,
                   max_workers, BULK_UPDATE>>

Next ==
    \/ Submit
    \/ \E i \in Tasks : Start(i)
    \/ \E i \in Tasks : Read(i)
    \/ \E i \in Tasks : TryIdentifier(i)
    \/ \E i \in Tasks : PatchAndWrite(i)
    \/ Collect

Spec == Init /\ [][Next]_vars

(***************************************************************************)
(* The claims.                                                             *)
(***************************************************************************)
\* the candidates a resolver call may return, stated from the contract: the
\* string parses, is no prerelease, and is strictly below the current
\* version's first index(target) components with the last one incremented
C1_Bound(rel, n) == [i \in 1..n |-> IF i = n THEN rel[i] + 1 ELSE rel[i]]

C1_Below(v, bound) ==
    bound # <<>> => VersionLt(v, [ok |-> TRUE, release |-> bound, pre |-> -1,
                                  raw_version |-> ""])

C1_Eligible(c, t, s) ==
    /\ Version(s).ok
    /\ ~is_prerelease(Version(s))
    /\ C1_Below(Version(s),
                C1_Bound(Version(c).release,
                         MinOf(SEMVER[t], Len(Version(c).release))))

C1_Scenario(c, t, candidates) ==
    /\ resolver.pc = "returned"
    /\ resolver.current_version = c
    /\ resolver.target = t
    /\ Range(resolver.versions) = candidates

C1_Returns(E) ==
    /\ resolver.result.ok <=> E # {}
    /\ resolver.result.ok =>
         /\ resolver.result.raw_version \in E
         /\ \A s \in E : VersionLe(Version(s), Version(resolver.result.raw_version))

\* C1: a resolver call returns, verbatim, a candidate that is maximal by
\* version order among the candidates that parse, are no prerelease and are
\* strictly below the ceiling; it fails exactly when no such candidate exists;
\* 1.2.3/minor/{1.2.4,1.3.0,2.0.0,1.3.0rc1} gives 1.3.0 and
\* 1.9.9/patch/{1.9.10,1.10.0} gives 1.9.10.
C1_ResolveMaxBelowCeiling ==
    resolver.pc = "returned" =>
        /\ C1_Returns({s \in Range(resolver.versions) :
                         C1_Eligible(resolver.current_version, resolver.target, s)})
        /\ C1_Scenario("1.2.3", "minor", {"1.2.4", "1.3.0", "2.0.0", "1.3.0rc1"})
             => resolver.result = [ok |-> TRUE, raw_version |-> "1.3.0"]
        /\ C1_Scenario("1.9.9", "patch", {"1.9.10", "1.10.0"})
             => resolver.result = [ok |-> TRUE, raw_version |-> "1.9.10"]

C1_Witness ==
    /\ C1_Scenario("1.2.3", "minor", {"1.2.4", "1.3.0", "2.0.0", "1.3.0rc1"})
    /\ resolver.result.raw_version = "1.3.0"

\* the attempt of task i got a version from a fetcher and has ended
Compared(i) ==
    /\ task[i].pc = "done"
    /\ Len(task[i].attempts) > 0
    /\ task[i].attempts[Len(task[i].attempts)].result = "ok"

\* C2: an attempt on a definition whose declared version is the version the
\* fetcher resolves ends as NoOpSkip and writes nothing: the file stays as
\* the attempt read it.
C2_RerunIsNoOp ==
    \A i \in Tasks :
        (Compared(i) /\ task[i].fetched.version = task[i].version) =>
            /\ task[i].outcome = "NoOpSkip"
            /\ task[i].writes = 0
            /\ (\A j \in Tasks \ {i} : task[j].file # task[i].file)
                 => disk[task[i].file] = task[i].text

\* a second attempt read the file a successful update had written
C2_Witness ==
    \E i \in Tasks, j \in Tasks :
        /\ i # j
        /\ task[j].outcome = "Updated"
        /\ Compared(i)
        /\ task[i].text = task[j].written
        /\ task[i].version = task[j].fetched.version
        /\ task[i].outcome = "NoOpSkip"

\* C3: a file changes only in the step that ends an attempt as Updated, and
\* that is the only write of the attempt; an attempt that ends any other way
\* has written nothing, and its file (when no other attempt of the batch
\* works on it) is as the attempt read it.
C3_WriteOnlyOnSuccess ==
    [][/\ \A f \in DOMAIN disk :
            disk'[f] # disk[f] =>
                \E i \in Tasks :
                    /\ task[i].file = f
                    /\ task[i].pc = "patch"
                    /\ task'[i].pc = "done"
                    /\ task'[i].outcome = "Updated"
       /\ \A i \in Tasks :
            /\ task'[i].writes <= 1
            /\ (task'[i].pc = "done" /\ task'[i].outcome # "Updated")
                 => /\ task'[i].writes = 0
                    /\ (/\ task'[i].file \in DOMAIN disk
                        /\ \A j \in Tasks \ {i} : task'[j].file # task'[i].file)
                         => disk'[task'[i].file] = task'[i].text]_vars

\* an attempt failed at the checksum substitution, after the version had
\* been substituted in memory, and the file is as it was read
C3_Witness ==
    \E i \in Tasks :
        /\ task[i].pc = "done"
        /\ task[i].outcome = "Failed"
        /\ task[i].reason \in {"NoOldHash", "no value found"}
        /\ Compared(i)
        /\ task[i].writes = 0
        /\ disk[task[i].file] = task[i].text

\* C4: every failure of an attempt ends it as a skip that _update reports
\* (no exception leaves _update), main does not end with an exception, and
\* no package of the batch is left unprocessed.
C4_EveryFailureIsASkip ==
    /\ main.pc # "crashed"
    /\ \A i \in Tasks :
         /\ task[i].pc # "cancelled"
         /\ task[i].pc = "done" => task[i].outcome # "Raised"

\* C5: when the attribute has exactly one matching assignment, the text
\* _replace_value returns is the old text with only the value of the matched
\* line exchanged (name, whitespace, quotes and terminator kept, every
\* character outside the line kept), and _get_line_and_value on it finds the
\* new value.
C5_ReplaceRoundTrip ==
    (patcher.pc = "done" /\ patcher.found.ok) =>
        /\ patcher.replaced.ok
        /\ patcher.replaced.text =
             SubSeq(patcher.text, 1, patcher.found.pos - 1)
               \o SubSeq(patcher.found.line, 1,
                         Len(patcher.found.line) - Len(patcher.found.value) - 2)
               \o patcher.value \o "\";"
               \o SubSeq(patcher.text, patcher.found.pos + Len(patcher.found.line),
                         Len(patcher.text))
        /\ patcher.refound.ok
        /\ patcher.refound.value = patcher.value

\* the number of places of the text where an assignment of the attribute
\* (with the value oldvalue, when one is given) starts
C6_Assignments ==
    Cardinality({i \in 1..Len(patcher.text) :
                    MatchAt(patcher.attribute, patcher.text, i,
                            patcher.oldvalue).matched})

\* C6: _get_line_and_value and _replace_value succeed only on a text with
\* exactly one assignment of the attribute; with none they fail with no value
\* found, with two or more they fail with found too many values, and return
\* no text.
C6_ExactlyOneAssignment ==
    /\ patcher.pc \in {"replace", "refind", "done"} =>
         /\ patcher.found.ok => C6_Assignments = 1
         /\ C6_Assignments = 0 => patcher.found.err = "no value found"
         /\ C6_Assignments >= 2 => patcher.found.err = "found too many values"
    /\ patcher.pc \in {"refind", "done"} =>
         /\ patcher.replaced.ok => C6_Assignments = 1
         /\ C6_Assignments = 0 =>
              patcher.replaced.err = "no value found" /\ patcher.replaced.text = ""
         /\ C6_Assignments >= 2 =>
              patcher.replaced.err = "found too many values" /\ patcher.replaced.text = ""

\* text without the len characters from pos (pos = 0: nothing to take out)
C7_Cut(text, pos, len) ==
    IF pos = 0 THEN text
    ELSE SubSeq(text, 1, pos - 1) \o SubSeq(text, pos + len, Len(text))

C7_CutFound(text, found) == C7_Cut(text, found.pos, Len(found.line))

C7_CutLine(text, line) ==
    IF line = "" THEN text ELSE C7_Cut(text, IndexFrom(text, line, 1), Len(line))

C7_CutChecksum(text, h) ==
    IF h.ok THEN C7_CutFound(text, h)
    ELSE C7_CutFound(text, _get_line_and_value("sha256", text, None))

C7_CutReferences(text, github) ==
    IF ~github THEN text
    ELSE C7_CutLine(C7_CutLine(text, FirstRevMatch(text)),
                    FirstChangelogMatch(C7_CutLine(text, FirstRevMatch(text))))

\* the text outside the assignments an update is to touch: the version, the
\* checksum and, for fetchFromGitHub, the rev/tag line and the changelog
C7_Outside(text, github) ==
    C7_CutReferences(
        C7_CutChecksum(C7_CutFound(text, _get_line_and_value("version", text, None)),
                       _get_line_and_value(
                           "hash",
                           C7_CutFound(text, _get_line_and_value("version", text, None)),
                           None)),
        github)

\* C7: the text an update writes differs from the text it read only inside
\* the version, checksum, rev/tag and changelog assignments.
C7_OnlyTouchedAssignmentsChange ==
    \A i \in Tasks :
        task[i].outcome = "Updated" =>
            C7_Outside(task[i].written, task[i].fetcher = "fetchFromGitHub")
              = C7_Outside(task[i].text, task[i].fetcher = "fetchFromGitHub")

\* C8: no two attempts that are under way at the same time work on the same
\* definition file.
C8_DisjointFiles ==
    \A i \in Tasks, j \in Tasks :
        (i # j /\ Active(i) /\ Active(j)) => task[i].file # task[j].file

C9_Classified(t, new, declared) ==
    /\ VersionEq(new, declared) => t.outcome = "NoOpSkip" /\ t.writes = 0
    /\ VersionLt(new, declared) => t.outcome = "Failed" /\ t.reason = "Downgrade"
    /\ (VersionLt(declared, new) /\ t.fetched.sha256 = "")
         => t.outcome = "Failed" /\ t.reason = "NoArtifact"
    /\ t.outcome = "Updated" => VersionLt(declared, new) /\ t.fetched.sha256 # ""

\* C9: after a successful fetch the attempt is classified by the order of the
\* resolved and the declared version as versions: equal is NoOpSkip without
\* a write, lower is Downgrade, higher without checksum is NoArtifact, and
\* Updated needs a strictly higher version and a checksum.
C9_ClassifiedAsVersions ==
    \A i \in Tasks :
        Compared(i) => C9_Classified(task[i], Version(task[i].fetched.version),
                                     Version(task[i].version))

C10_Loop(t, n) ==
    /\ n <= Len(t.pnames)
    /\ \A k \in 1..n : t.attempts[k].pname = t.pnames[k]
    /\ \A k \in 1..(n - 1) : t.attempts[k].result \in {"ValueError", "Exception"}
    /\ t.attempts[n].result \in {"ValueError", "Exception"}
         => n = Len(t.pnames) /\ t.outcome = "Failed"
            /\ t.reason = "NoMatchingIdentifier"

\* C10: the identifiers are tried in their order; after a fetch that failed,
\* for whatever reason, the next one is tried; the first success ends the
\* loop; an attempt whose last fetch failed has tried every identifier and
\* ends as NoMatchingIdentifier.
C10_IdentifierLoop ==
    \A i \in Tasks :
        (task[i].pc = "done" /\ Len(task[i].attempts) > 0) =>
            C10_Loop(task[i], Len(task[i].attempts))

\* the files of the release of a version in a release-metadata document
C11_FilesOf(json, version) ==
    UNION {Range(json[k].files) : k \in {g \in 1..Len(json) : json[g].version = version}}

\* C11: the version (and with it the checksum) the package-index fetcher
\* returns never comes from a release that has a yanked file: only releases
\* whose every file is not yanked are candidates.
C11_NoYankedCandidate ==
    \A i \in Tasks :
        (/\ task[i].fetcher \in {"fetchPypi", "fetchurl"}
         /\ task[i].pc \in {"patch", "done"}
         /\ Len(task[i].attempts) > 0
         /\ task[i].attempts[Len(task[i].attempts)].result = "ok") =>
            \A f \in C11_FilesOf(upstream.json, task[i].fetched.version) : ~f.yanked

====
